---- MODULE Spec2Model ----
(***************************************************************************)
(* Model of src/app.py: the upload pipeline (index), the job table         *)
(* (generated_files), and the video, download and update_speakers          *)
(* handlers.                                                               *)
(*                                                                         *)
(* Text is a sequence of one-character strings, so that str.replace,       *)
(* str.strip, str.join and the f-strings are computed character by         *)
(* character.  Times are integers counting milliseconds (the code has      *)
(* floats counting seconds); every time the model draws is a whole number  *)
(* of milliseconds, for which the float arithmetic of the code is exact.   *)
(***************************************************************************)
EXTENDS Integers, Sequences, FiniteSets, TLC

VARIABLES generated_files, files, uuids, last, thr

vars == <<generated_files, files, uuids, last, thr>>

----------------------------------------------------------------------------
(* Bounds of the model.                                                    *)

\* calls of uuid.uuid4() in the application specifications (two per job)
MaxUuids == 4
\* calls of uuid.uuid4() in the pipeline specification
MaxPipelineUuids == 2
\* calls of uuid.uuid4() in the rename specification
MaxRenameUuids == 2
\* calls of uuid.uuid4() in the specification of concurrent handlers
MaxThreadedUuids == 2
\* segments in one transcription result of the pipeline specification
MaxSegs == 2

----------------------------------------------------------------------------
(* Text.                                                                   *)

NL == "\n"
SP == " "
Whitespace == {" ", "\n", "\t"}
Digits == <<"0", "1", "2", "3", "4", "5", "6", "7", "8", "9">>

WEBVTT == <<"W", "E", "B", "V", "T", "T">>
SPEAKER_ == <<"S", "P", "E", "A", "K", "E", "R", "_">>
Arrow == <<" ", "-", "-", ">", " ">>

\* str(n) for n >= 0
RECURSIVE IntToStr(_)
IntToStr(n) ==
    IF n < 10 THEN <<Digits[n + 1]>>
    ELSE IntToStr(n \div 10) \o <<Digits[(n % 10) + 1]>>

RECURSIVE ZeroPad(_, _)
ZeroPad(s, width) ==
    IF Len(s) >= width THEN s ELSE ZeroPad(<<"0">> \o s, width)

\* f"{n:02d}"
Format02d(n) == ZeroPad(IntToStr(n), 2)

\* f"{secs:06.3f}" for secs = ms / 1000, 0 <= ms < 60000
Format06_3f(ms) ==
    ZeroPad(IntToStr(ms \div 1000) \o <<".">> \o ZeroPad(IntToStr(ms % 1000), 3), 6)

format_timestamp(seconds) ==
    LET hours == seconds \div 3600000
        minutes == (seconds % 3600000) \div 60000
        secs == seconds % 60000
    IN  Format02d(hours) \o <<":">> \o Format02d(minutes) \o <<":">> \o Format06_3f(secs)

RECURSIVE LStrip(_)
LStrip(s) ==
    IF s # <<>> /\ Head(s) \in Whitespace THEN LStrip(Tail(s)) ELSE s

RECURSIVE RStrip(_)
RStrip(s) ==
    IF s # <<>> /\ s[Len(s)] \in Whitespace THEN RStrip(SubSeq(s, 1, Len(s) - 1)) ELSE s

\* str.strip()
Strip(s) == RStrip(LStrip(s))

\* sep.join(lines)
RECURSIVE Join(_, _)
Join(lines, sep) ==
    IF lines = <<>> THEN <<>>
    ELSE IF Len(lines) = 1 THEN lines[1]
    ELSE lines[1] \o sep \o Join(Tail(lines), sep)

\* the places from i on where old occurs in s
Occurrences(s, i, old) ==
    {p \in i..(Len(s) - Len(old) + 1) :
        s[p] = old[1] /\ SubSeq(s, p, p + Len(old) - 1) = old}

\* s[i:].replace(old, new): the occurrences from left to right, none
\* overlapping one already replaced; old is never empty
RECURSIVE ReplaceFrom(_, _, _, _)
ReplaceFrom(s, i, old, new) ==
    LET found == Occurrences(s, i, old)
    IN  IF found = {} THEN SubSeq(s, i, Len(s))
        ELSE LET p == CHOOSE q \in found : \A r \in found : q <= r
             IN  SubSeq(s, i, p - 1) \o new \o ReplaceFrom(s, p + Len(old), old, new)

\* s.replace(old, new, 1)
ReplaceFirst(s, old, new) ==
    LET found == Occurrences(s, 1, old)
    IN  IF found = {} THEN s
        ELSE LET p == CHOOSE q \in found : \A r \in found : q <= r
             IN  SubSeq(s, 1, p - 1) \o new \o SubSeq(s, p + Len(old), Len(s))

Replace(s, old, new) == ReplaceFrom(s, 1, old, new)

Bracket(s) == <<"[">> \o s \o <<"]">>

----------------------------------------------------------------------------
(* Speaker attribution and the cue loop of index (STEP 5).                 *)

Unknown == "Unknown"

\* diarization = None after a diarization failure
NoDiarization == [avail |-> FALSE, turns |-> <<>>]
Diarization(turns) == [avail |-> TRUE, turns |-> turns]

\* a scan whose turns do not contain their end
RECURSIVE ScanTurnsHalfOpen(_, _, _)
ScanTurnsHalfOpen(turns, i, mid2) ==
    IF i > Len(turns) THEN Unknown
    ELSE IF 2 * turns[i].start <= mid2 /\ mid2 < 2 * turns[i].end
         THEN turns[i].speaker
         ELSE ScanTurnsHalfOpen(turns, i + 1, mid2)

\* the for loop of get_speaker_for_segment over itertracks, from turn i on;
\* mid2 is twice mid_time, so that the halving loses nothing
RECURSIVE ScanTurns(_, _, _)
ScanTurns(turns, i, mid2) ==
    IF i > Len(turns) THEN Unknown
    ELSE IF 2 * turns[i].start <= mid2 /\ mid2 <= 2 * turns[i].end
         THEN turns[i].speaker
         ELSE ScanTurns(turns, i + 1, mid2)

get_speaker_for_segment(diarization, start, end) ==
    IF ~diarization.avail THEN Unknown
    ELSE ScanTurns(diarization.turns, 1, start + end)

\* a numbering that starts at 2
PlaceholderFromTwo(counter) == SPEAKER_ \o Format02d(counter + 1)

\* f"SPEAKER_{counter:02d}"
Placeholder(counter) == SPEAKER_ \o Format02d(counter)

EmptyMap == [k \in {} |-> <<>>]

\* the state of the loop before its first iteration (lines 95-97); speakers,
\* tags and maps record orig_speaker, placeholder and placeholder_map as they
\* are at the end of each iteration
LoopStart ==
    [vtt_lines |-> <<WEBVTT, <<>>>>, placeholder_map |-> EmptyMap, counter |-> 1,
     speakers |-> <<>>, tags |-> <<>>, maps |-> <<>>]

\* one iteration of the loop (lines 99-110)
LoopBody(acc, segment, diarization) ==
    LET start_ts == format_timestamp(segment.start)
        end_ts == format_timestamp(segment.end)
        text == Strip(segment.text)
        orig_speaker == get_speaker_for_segment(diarization, segment.start, segment.end)
        fresh == orig_speaker \notin DOMAIN acc.placeholder_map
        map == IF fresh
               THEN [k \in DOMAIN acc.placeholder_map \cup {orig_speaker} |->
                        IF k = orig_speaker THEN Placeholder(acc.counter)
                        ELSE acc.placeholder_map[k]]
               ELSE acc.placeholder_map
        placeholder == map[orig_speaker]
    IN  [vtt_lines |-> acc.vtt_lines \o
                        <<start_ts \o Arrow \o end_ts,
                          Bracket(placeholder) \o <<SP>> \o text,
                          <<>>>>,
         placeholder_map |-> map,
         counter |-> IF fresh THEN acc.counter + 1 ELSE acc.counter,
         speakers |-> Append(acc.speakers, orig_speaker),
         tags |-> Append(acc.tags, placeholder),
         maps |-> Append(acc.maps, map)]

\* the loop over segments i..Len(segments) (line 98)
RECURSIVE Loop(_, _, _, _)
Loop(acc, segments, i, diarization) ==
    IF i > Len(segments) THEN acc
    ELSE Loop(LoopBody(acc, segments[i], diarization), segments, i + 1, diarization)

BuildVtt(segments, diarization) == Loop(LoopStart, segments, 1, diarization)

\* a join that also ends the last line
vtt_content_terminated(vtt_lines) == Join(vtt_lines, <<NL>>) \o <<NL>>

\* "\n".join(vtt_lines) (line 112)
vtt_content(vtt_lines) == Join(vtt_lines, <<NL>>)

\* int(c) for a digit c
DigitValue(c) == CHOOSE d \in 0..9 : Digits[d + 1] = c

RECURSIVE StrToInt(_)
StrToInt(s) ==
    IF Len(s) = 1 THEN DigitValue(s[1])
    ELSE 10 * StrToInt(SubSeq(s, 1, Len(s) - 1)) + DigitValue(s[Len(s)])

\* x.split(sep) for a one-character sep
RECURSIVE Split(_, _)
Split(s, sep) ==
    IF \A i \in 1..Len(s) : s[i] # sep THEN <<s>>
    ELSE LET i == CHOOSE j \in 1..Len(s) :
                      s[j] = sep /\ \A h \in 1..(j - 1) : s[h] # sep
         IN  <<SubSeq(s, 1, i - 1)>> \o Split(SubSeq(s, i + 1, Len(s)), sep)

\* the sort key of line 128: int(x.split('_')[1])
PlaceholderNumber(x) == StrToInt(Split(x, "_")[2])

\* sorted(S, key=PlaceholderNumber) for a set S of placeholders
RECURSIVE SortedPlaceholders(_)
SortedPlaceholders(S) ==
    IF S = {} THEN <<>>
    ELSE LET x == CHOOSE y \in S :
                      \A z \in S : PlaceholderNumber(y) <= PlaceholderNumber(z)
         IN  <<x>> \o SortedPlaceholders(S \ {x})

MapValues(m) == {m[k] : k \in DOMAIN m}

----------------------------------------------------------------------------
(* Requests, responses and the file system.                                *)

\* a path in tempfile.gettempdir(): f"{uuid}_{stem}{ext}"
Path(uuid, stem, ext) == [uuid |-> uuid, stem |-> stem, ext |-> ext]

\* os.path.join(tempfile.gettempdir(), f"{uuid.uuid4()}_{filename}") (line 50)
VideoFilename(uuid, filename) == Path(uuid, filename.stem, filename.ext)

\* os.path.splitext(video_filename)[0] + ".wav" (line 54)
AudioFilename(video_filename) == Path(video_filename.uuid, video_filename.stem, ".wav")

EmptyFilename == [stem |-> "", ext |-> ""]
NoResult == [ok |-> FALSE, text |-> "", segments |-> <<>>]
Transcription(text, segments) == [ok |-> TRUE, text |-> text, segments |-> segments]

\* the request of index, with the outcomes of the collaborators it calls
IndexRequest(method, has_file, filename, ffmpeg, token, diarization, result) ==
    [method |-> method, has_file |-> has_file, filename |-> filename,
     ffmpeg |-> ffmpeg, token |-> token, diarization |-> diarization,
     result |-> result]

NoLocals == [speakers |-> <<>>, tags |-> <<>>, maps |-> <<>>]

\* the request just handled, its response, the locals of its handler, and the
\* job table and temporary directory it started from
Handled(op, req, status, body, loc, repeat) ==
    last' = [op |-> op, req |-> req, status |-> status, body |-> body, loc |-> loc,
             repeat |-> repeat, gf0 |-> generated_files, files0 |-> files]

Page(name, error) == [page |-> name, error |-> error]
ServerError(exception) == [page |-> "500", error |-> exception]

\* generated_files[uid] = {...} (lines 120-125)
Job(vtt, transcript, video_path, placeholder_map) ==
    [vtt |-> vtt, transcript |-> transcript, video_path |-> video_path,
     placeholder_map |-> placeholder_map]

JobKeys == {"vtt", "transcript", "video_path", "placeholder_map"}

Store(table, uid, job) ==
    [u \in DOMAIN table \cup {uid} |-> IF u = uid THEN job ELSE table[u]]

----------------------------------------------------------------------------
(* index (lines 36-130).                                                   *)

\* GET /
index_get ==
    /\ Handled("index", IndexRequest("GET", FALSE, EmptyFilename, "none", FALSE,
                                     NoDiarization, NoResult),
               200, Page("index.html", "None"), NoLocals, FALSE)
    /\ UNCHANGED <<generated_files, files, uuids, thr>>

\* lines 40-42
index_no_file_part ==
    /\ Handled("index", IndexRequest("POST", FALSE, EmptyFilename, "none", FALSE,
                                     NoDiarization, NoResult),
               200, Page("index.html", "No file part in the request."), NoLocals, FALSE)
    /\ UNCHANGED <<generated_files, files, uuids, thr>>

\* lines 43-46
index_no_filename ==
    /\ Handled("index", IndexRequest("POST", TRUE, EmptyFilename, "none", FALSE,
                                     NoDiarization, NoResult),
               200, Page("index.html", "No file selected."), NoLocals, FALSE)
    /\ UNCHANGED <<generated_files, files, uuids, thr>>

\* lines 48-68: ffmpeg exits non-zero without an output file, and the
\* uploaded file is removed
index_transcode_failure(limit, Filenames) ==
    \E filename \in Filenames :
        LET video_filename == VideoFilename(uuids + 1, filename)
        IN  /\ uuids + 1 <= limit
            /\ uuids' = uuids + 1
            /\ files' = (files \cup {video_filename}) \ {video_filename}
            /\ Handled("index", IndexRequest("POST", TRUE, filename, "failed",
                                             FALSE, NoDiarization, NoResult),
                       200,
                       Page("index.html",
                            "Error processing the video file. Please ensure it is a valid video."),
                       NoLocals, FALSE)
            /\ UNCHANGED <<generated_files, thr>>

\* ffmpeg refuses to write the file it reads, so it converts only other files
Converts(video_filename) == AudioFilename(video_filename) # video_filename

\* lines 48-74: HUGGINGFACE_TOKEN is not set
index_token_missing(limit, Filenames) ==
    \E filename \in Filenames :
        LET video_filename == VideoFilename(uuids + 1, filename)
            audio_filename == AudioFilename(video_filename)
        IN  /\ uuids + 1 <= limit
            /\ Converts(video_filename)
            /\ uuids' = uuids + 1
            /\ files' = files \cup {video_filename, audio_filename}
            /\ Handled("index", IndexRequest("POST", TRUE, filename, "ok", FALSE,
                                             NoDiarization, NoResult),
                       500, ServerError("ValueError"), NoLocals, FALSE)
            /\ UNCHANGED <<generated_files, thr>>

\* lines 48-89: model.transcribe raises
index_transcribe_failure(limit, Filenames) ==
    \E filename \in Filenames :
        LET video_filename == VideoFilename(uuids + 1, filename)
            audio_filename == AudioFilename(video_filename)
        IN  /\ uuids + 1 <= limit
            /\ Converts(video_filename)
            /\ uuids' = uuids + 1
            /\ files' = files \cup {video_filename, audio_filename}
            /\ Handled("index", IndexRequest("POST", TRUE, filename, "ok", TRUE,
                                             NoDiarization, NoResult),
                       500, ServerError("Exception"), NoLocals, FALSE)
            /\ UNCHANGED <<generated_files, thr>>

\* lines 48-129: the job is built and stored
index_ok(limit, Filenames, Diarizations, Results) ==
    \E filename \in Filenames, diarization \in Diarizations, result \in Results :
        LET video_filename == VideoFilename(uuids + 1, filename)
            audio_filename == AudioFilename(video_filename)
            transcript_text == result.text
            segments == result.segments
            built == BuildVtt(segments, diarization)
            uid == uuids + 2
            placeholders == SortedPlaceholders(MapValues(built.placeholder_map))
        IN  /\ uuids + 2 <= limit
            /\ Converts(video_filename)
            /\ uuids' = uuids + 2
            /\ files' = (files \cup {video_filename, audio_filename}) \ {audio_filename}
            /\ generated_files' =
                   Store(generated_files, uid,
                         Job(vtt_content(built.vtt_lines), transcript_text,
                             video_filename, built.placeholder_map))
            /\ Handled("index", IndexRequest("POST", TRUE, filename, "ok", TRUE,
                                             diarization, result),
                       200,
                       [page |-> "edit.html", uid |-> uid, placeholders |-> placeholders],
                       [speakers |-> built.speakers, tags |-> built.tags,
                        maps |-> built.maps],
                       FALSE)
            /\ UNCHANGED thr

index(limit, Filenames, Diarizations, Results) ==
    \/ index_get
    \/ index_no_file_part
    \/ index_no_filename
    \/ index_transcode_failure(limit, Filenames)
    \/ index_token_missing(limit, Filenames)
    \/ index_transcribe_failure(limit, Filenames)
    \/ index_ok(limit, Filenames, Diarizations, Results)

----------------------------------------------------------------------------
(* video (lines 132-137).                                                  *)

video(Uids) ==
    \E uid \in Uids :
        /\ IF uid \notin DOMAIN generated_files
           THEN Handled("video", [uid |-> uid], 404, "Video not found", NoLocals, FALSE)
           ELSE Handled("video", [uid |-> uid], 200,
                        [file |-> generated_files[uid]["video_path"]], NoLocals, FALSE)
        /\ UNCHANGED <<generated_files, files, uuids, thr>>

----------------------------------------------------------------------------
(* download (lines 139-159).                                               *)

\* request.args.get("type"): None when the parameter is missing
None == "None"
FileTypes == {None, "vtt", "transcript", "video_path", "placeholder_map", "other"}

Attachment(content, download_name, mimetype) ==
    [content |-> content, download_name |-> download_name, mimetype |-> mimetype]

download_response(table, uid, file_type) ==
    IF uid \notin DOMAIN table \/ file_type \notin JobKeys
    THEN [status |-> 404, body |-> "Requested file not found."]
    ELSE LET content == table[uid][file_type]
         IN  IF file_type = "vtt"
             THEN [status |-> 200,
                   body |-> Attachment(content, "subtitles.vtt", "text/vtt")]
             ELSE IF file_type = "transcript"
             THEN [status |-> 200,
                   body |-> Attachment(content, "transcript.txt", "text/plain")]
             ELSE IF file_type = "placeholder_map"
             \* a dict has no encode: AttributeError
             THEN [status |-> 500, body |-> ServerError("AttributeError")]
             ELSE [status |-> 200,
                   body |-> Attachment(content, "file.txt", "text/plain")]

download(Uids) ==
    \E uid \in Uids, file_type \in FileTypes :
        LET response == download_response(generated_files, uid, file_type)
        IN  /\ Handled("download", [uid |-> uid, file_type |-> file_type],
                       response.status, response.body, NoLocals, FALSE)
            /\ UNCHANGED <<generated_files, files, uuids, thr>>

----------------------------------------------------------------------------
(* update_speakers (lines 161-180).                                        *)

\* a mapping that takes every value as typed
new_mapping_raw(form) ==
    [i \in 1..Len(form) |-> [placeholder |-> form[i].key, new_name |-> form[i].value]]

\* lines 167-170: new_mapping in its insertion order, the order of the form
new_mapping(form) ==
    [i \in 1..Len(form) |->
        [placeholder |-> form[i].key,
         new_name |-> IF Strip(form[i].value) # <<>> THEN Strip(form[i].value)
                      ELSE form[i].key]]

\* lines 174-176, from item i of new_mapping on
RECURSIVE ReplaceAll(_, _, _)
ReplaceAll(updated_vtt, mapping, i) ==
    IF i > Len(mapping) THEN updated_vtt
    ELSE ReplaceAll(Replace(updated_vtt, Bracket(mapping[i].placeholder),
                            Bracket(mapping[i].new_name)),
                    mapping, i + 1)

\* lines 167-176: the new track
updated_vtt(vtt, form) == ReplaceAll(vtt, new_mapping(form), 1)

\* a store that writes the track of every job
SaveVttEverywhere(table, uid, vtt) ==
    [u \in DOMAIN table |-> [table[u] EXCEPT !["vtt"] = vtt]]

\* generated_files[uid]["vtt"] = updated_vtt (line 178)
SaveVtt(table, uid, vtt) == [table EXCEPT ![uid]["vtt"] = vtt]

update_speakers(Uids, Forms) ==
    \E uid \in Uids, form \in Forms :
        LET req == [uid |-> uid, form |-> form]
            repeat == last.op = "update_speakers" /\ last.status = 200 /\ last.req = req
        IN  IF uid \notin DOMAIN generated_files
            THEN /\ Handled("update_speakers", req, 404, "Job not found", NoLocals, FALSE)
                 /\ UNCHANGED <<generated_files, files, uuids, thr>>
            ELSE /\ generated_files' =
                        SaveVtt(generated_files, uid,
                                updated_vtt(generated_files[uid]["vtt"], form))
                 /\ Handled("update_speakers", req, 200,
                            [page |-> "final.html", uid |-> uid], NoLocals, repeat)
                 /\ UNCHANGED <<files, uuids, thr>>

----------------------------------------------------------------------------
(* The inputs the specifications draw from.                                *)

Hello == <<"h", "e", "l", "l", "o">>
Hi == <<" ", "h", "i", " ">>
Al == <<" ", "A", "l", " ">>

\* mid_time 1.0, 3.0 and 1832.625
SegHello == [start |-> 0, end |-> 2000, text |-> Hello]
SegHi == [start |-> 2000, end |-> 4000, text |-> Hi]
SegSilent == [start |-> 4000, end |-> 3661250, text |-> <<>>]
Segments == {SegHello, SegHi, SegSilent}

\* two turns that share the instant 1.0
TurnA == [start |-> 0, end |-> 1000, speaker |-> "A"]
TurnB == [start |-> 1000, end |-> 3000, speaker |-> "B"]

SeqsUpTo(S, n) == UNION {[1..k -> S] : k \in 0..n}

ClipMp4 == [stem |-> "clip", ext |-> ".mp4"]
TalkWav == [stem |-> "talk", ext |-> ".wav"]

AppFilenames == {ClipMp4, TalkWav}
AppDiarizations == {NoDiarization, Diarization(<<TurnA, TurnB>>)}
AppResults == {Transcription("", <<>>), Transcription("hello hi", <<SegHello, SegHi>>)}

PipelineFilenames == {ClipMp4}
PipelineDiarizations ==
    {NoDiarization, Diarization(<<>>), Diarization(<<TurnA, TurnB>>),
     Diarization(<<TurnB, TurnA>>)}
PipelineResults == {Transcription("text", segs) : segs \in SeqsUpTo(Segments, MaxSegs)}

\* the fields of the edit page, and what a user may type into one
FormKeys == {Placeholder(1), Placeholder(2)}
FormValues == {<<>>, <<SP>>, Al, Placeholder(2)}

\* request.form.items(): pairs with distinct keys, in the order of the request
FormsOver(Keys, Values) ==
    {form \in SeqsUpTo([key : Keys, value : Values], Cardinality(Keys)) :
        \A i, j \in 1..Len(form) : form[i].key = form[j].key => i = j}

AppForms == FormsOver({Placeholder(1)}, {<<>>, Al})

RenameFilenames == {ClipMp4}
RenameResults == {Transcription("hello hi", <<SegHello, SegHi>>)}
RenameForms == FormsOver(FormKeys, FormValues)

\* the job ids a request may name: those issued, and one that never was
KnownOrNot == DOMAIN generated_files \cup {0}

----------------------------------------------------------------------------
(* The application: every handler runs from start to end.                  *)

\* the threads that serve update_speakers requests in the threaded
\* specification: where each is in the handler, its request, the track it
\* read at line 173 (and whether it read before every other thread), and its
\* local updated_vtt
Threads == {1, 2}
Idle ==
    [pc |-> "idle", uid |-> 0, form |-> <<>>, seen |-> <<>>, first |-> FALSE,
     updated_vtt |-> <<>>]

Init ==
    /\ generated_files = [u \in {} |-> Job(<<>>, "", Path(0, "", ""), EmptyMap)]
    /\ files = {}
    /\ uuids = 0
    /\ last = [op |-> "none", req |-> [uid |-> 0], status |-> 0, body |-> "", loc |-> NoLocals,
               repeat |-> FALSE, gf0 |-> generated_files, files0 |-> files]
    /\ thr = [t \in Threads |-> Idle]

Next ==
    \/ index(MaxUuids, AppFilenames, AppDiarizations, AppResults)
    \/ video(KnownOrNot)
    \/ download(KnownOrNot)
    \/ update_speakers(KnownOrNot, AppForms)

Spec == Init /\ [][Next]_vars

----------------------------------------------------------------------------
(* The pipeline alone, over every transcription and diarization.           *)

NextPipeline ==
    index(MaxPipelineUuids, PipelineFilenames, PipelineDiarizations, PipelineResults)

SpecPipeline == Init /\ [][NextPipeline]_vars

----------------------------------------------------------------------------
(* One job and every rename request over two placeholders.                 *)

NextRename ==
    \/ index(MaxRenameUuids, RenameFilenames, AppDiarizations, RenameResults)
    \/ video(KnownOrNot)
    \/ download(KnownOrNot)
    \/ update_speakers(KnownOrNot, RenameForms)

SpecRename == Init /\ [][NextRename]_vars

----------------------------------------------------------------------------
(* Request handlers on concurrent threads (app.run serves each request on  *)
(* its own thread).  index, video and download touch the job table in one  *)
(* statement; update_speakers reads the track at line 173 and stores the   *)
(* new one at line 178, and other threads run in between.                  *)

ThreadedForms == FormsOver(FormKeys, {Al})

\* lines 162-176 on thread t: the lookup, new_mapping, the read of the track
\* and the replacements, all on locals
update_speakers_read(t, Uids, Forms) ==
    \E uid \in Uids, form \in Forms :
        /\ thr[t].pc = "idle"
        /\ IF uid \notin DOMAIN generated_files
           THEN /\ Handled("update_speakers", [uid |-> uid, form |-> form], 404,
                           "Job not found", NoLocals, FALSE)
                /\ UNCHANGED thr
           ELSE /\ thr' = [thr EXCEPT ![t] =
                            [pc |-> "store", uid |-> uid, form |-> form,
                             seen |-> generated_files[uid]["vtt"],
                             first |-> \A o \in Threads : thr[o].pc = "idle",
                             updated_vtt |->
                                 updated_vtt(generated_files[uid]["vtt"], form)]]
                /\ UNCHANGED last
        /\ UNCHANGED <<generated_files, files, uuids>>

\* lines 178-180 on thread t
update_speakers_store(t) ==
    /\ thr[t].pc = "store"
    /\ generated_files' = SaveVtt(generated_files, thr[t].uid, thr[t].updated_vtt)
    /\ thr' = [thr EXCEPT ![t].pc = "done"]
    /\ Handled("update_speakers", [uid |-> thr[t].uid, form |-> thr[t].form], 200,
               [page |-> "final.html", uid |-> thr[t].uid], NoLocals, FALSE)
    /\ UNCHANGED <<files, uuids>>

NextThreaded ==
    \/ index(MaxThreadedUuids, RenameFilenames, AppDiarizations, RenameResults)
    \/ video(KnownOrNot)
    \/ download(KnownOrNot)
    \/ \E t \in Threads : update_speakers_read(t, KnownOrNot, ThreadedForms)
    \/ \E t \in Threads : update_speakers_store(t)

SpecThreaded == Init /\ [][NextThreaded]_vars

----------------------------------------------------------------------------
(* What the claims speak of.                                               *)

\* the last request was an upload that created a job
Uploaded == last.op = "index" /\ last.body.page = "edit.html"

\* the last request was a rename of a known job
Renamed == last.op = "update_speakers" /\ last.status = 200

Speaker01 == <<"S", "P", "E", "A", "K", "E", "R", "_", "0", "1">>
Speaker02 == <<"S", "P", "E", "A", "K", "E", "R", "_", "0", "2">>

MatchAt(s, p, pattern) ==
    /\ p + Len(pattern) - 1 <= Len(s)
    /\ SubSeq(s, p, p + Len(pattern) - 1) = pattern

Contains(s, pattern) == \E p \in 1..Len(s) : MatchAt(s, p, pattern)

FirstIndex(key, speakers) ==
    CHOOSE i \in 1..Len(speakers) :
        speakers[i] = key /\ \A h \in 1..(i - 1) : speakers[h] # key

\* the name a pair asks for: the trimmed value, or the placeholder kept
EffectiveName(pair) ==
    IF \A i \in 1..Len(pair.value) : pair.value[i] \in Whitespace
    THEN pair.key
    ELSE Strip(pair.value)

SomeNonBlank(form) == \E i \in 1..Len(form) : EffectiveName(form[i]) # form[i].key

\* no new name is a placeholder the request renames
NoNameIsRenamedKey(form) ==
    \A i, j \in 1..Len(form) :
        EffectiveName(form[j]) # form[j].key => EffectiveName(form[i]) # form[j].key

\* no new name is a placeholder a later pair of the request renames
NoNameIsLaterRenamedKey(form) ==
    \A i, j \in 1..Len(form) :
        i < j /\ EffectiveName(form[j]) # form[j].key
            => EffectiveName(form[i]) # form[j].key

\* every token [key] of s from place i on replaced by [name] in one pass
RECURSIVE RenameTokens(_, _, _)
RenameTokens(s, i, form) ==
    LET hits == {p \in i..Len(s) :
                    s[p] = "[" /\ \E j \in 1..Len(form) :
                                      MatchAt(s, p, Bracket(form[j].key))}
    IN  IF hits = {} THEN SubSeq(s, i, Len(s))
        ELSE LET p == CHOOSE q \in hits : \A r \in hits : q <= r
                 j == CHOOSE h \in 1..Len(form) : MatchAt(s, p, Bracket(form[h].key))
             IN  SubSeq(s, i, p - 1) \o Bracket(EffectiveName(form[j]))
                     \o RenameTokens(s, p + Len(form[j].key) + 2, form)

\* the pairs of a form in ascending order of their placeholder's number
InNumericOrder(form) ==
    CHOOSE g \in [1..Len(form) -> {form[i] : i \in 1..Len(form)}] :
        \A i, j \in 1..Len(form) :
            i < j => PlaceholderNumber(g[i].key) < PlaceholderNumber(g[j].key)

TagLine(tag, text) == Bracket(tag) \o <<SP>> \o Strip(text)
TimeLine(segment) ==
    format_timestamp(segment.start) \o Arrow \o format_timestamp(segment.end)

\* the cues from k on, each a blank line, a timestamp line and a tag line
RECURSIVE CuesAfterBlank(_, _, _)
CuesAfterBlank(segments, tags, k) ==
    IF k > Len(segments) THEN <<>>
    ELSE <<NL>> \o TimeLine(segments[k]) \o <<NL>>
             \o TagLine(tags[k], segments[k].text) \o <<NL>>
             \o CuesAfterBlank(segments, tags, k + 1)

\* the cues from k on, each a timestamp line, a tag line and a blank line
RECURSIVE CuesBeforeBlank(_, _, _)
CuesBeforeBlank(segments, tags, k) ==
    IF k > Len(segments) THEN <<>>
    ELSE TimeLine(segments[k]) \o <<NL>>
             \o TagLine(tags[k], segments[k].text) \o <<NL, NL>>
             \o CuesBeforeBlank(segments, tags, k + 1)

ScenarioA ==
    <<"W", "E", "B", "V", "T", "T", "\n", "\n", "0", "0", ":", "0", "0", ":",
      "0", "0", ".", "0", "0", "0", " ", "-", "-", ">", " ", "0", "0", ":",
      "0", "0", ":", "0", "2", ".", "0", "0", "0", "\n", "[", "S", "P", "E",
      "A", "K", "E", "R", "_", "0", "1", "]", " ", "h", "e", "l", "l", "o",
      "\n">>

\* the turns of a diarization that contain the midpoint of [start, end]
TurnsAround(turns, start, end) ==
    {i \in 1..Len(turns) : 2 * turns[i].start <= start + end
                            /\ start + end <= 2 * turns[i].end}

----------------------------------------------------------------------------
(* The claims.                                                             *)

\* C1: after every prefix of segments the placeholder mapping gives the
\* numbers 1..k, without gap or duplicate, to the k speaker keys seen so far
\* (Unknown included), in the order of their first segment, the first
\* segment's speaker being SPEAKER_01; no entry changes afterwards, a segment
\* of a key seen before is tagged with that key's placeholder, and the mapping
\* stored with the job is the one after the last segment.
C1_DenseFirstSeenNumbering ==
    Uploaded =>
        LET speakers == last.loc.speakers
            tags == last.loc.tags
            maps == last.loc.maps
            n == Len(last.req.result.segments)
            stored == generated_files[last.body.uid]["placeholder_map"]
        IN  /\ Len(speakers) = n /\ Len(maps) = n /\ Len(tags) = n
            /\ DOMAIN stored = {speakers[i] : i \in 1..n}
            /\ n > 0 => stored = maps[n]
            /\ \A k \in 1..n :
                   LET keys == {speakers[i] : i \in 1..k}
                       m == maps[k]
                   IN  /\ DOMAIN m = keys
                       /\ {PlaceholderNumber(m[key]) : key \in keys}
                              = 1..Cardinality(keys)
                       /\ \A a, b \in keys :
                              FirstIndex(a, speakers) < FirstIndex(b, speakers)
                                  => PlaceholderNumber(m[a]) < PlaceholderNumber(m[b])
                       /\ m[speakers[1]] = Speaker01
                       /\ k > 1 => \A key \in DOMAIN maps[k - 1] :
                                       key \in keys /\ m[key] = maps[k - 1][key]
                       /\ tags[k] = m[speakers[k]]

\* C1 happens: two segments of two speakers, one of them Unknown
C1_Witness ==
    /\ Uploaded
    /\ Len(last.loc.speakers) = 2
    /\ last.loc.speakers[1] # last.loc.speakers[2]
    /\ Unknown \in DOMAIN generated_files[last.body.uid]["placeholder_map"]
    /\ last.loc.tags[2] = Speaker02

\* C2 (as claimed): a rename request with a non-blank name, sent twice in
\* succession, leaves the track as it was after the first time.
C2_Original ==
    Renamed /\ last.repeat /\ SomeNonBlank(last.req.form)
        => generated_files[last.req.uid]["vtt"] = last.gf0[last.req.uid]["vtt"]

\* C2 (amended): the same, for the requests in which no new name is a
\* placeholder that the request itself renames.
C2_IdempotentWithoutChain ==
    Renamed /\ last.repeat /\ SomeNonBlank(last.req.form)
            /\ NoNameIsRenamedKey(last.req.form)
        => generated_files[last.req.uid]["vtt"] = last.gf0[last.req.uid]["vtt"]

\* C2 happens: such a request was sent twice and its name is in the track
C2_Witness ==
    /\ Renamed /\ last.repeat /\ SomeNonBlank(last.req.form)
    /\ NoNameIsRenamedKey(last.req.form)
    /\ Len(last.req.form) = 2
    /\ Contains(generated_files[last.req.uid]["vtt"], Bracket(Strip(Al)))

\* C3: the pairs of a rename request are applied in ascending order of the
\* placeholder's number, whatever the order of the request.
C3_NumericOrder ==
    Renamed =>
        generated_files[last.req.uid]["vtt"]
            = updated_vtt(last.gf0[last.req.uid]["vtt"], InNumericOrder(last.req.form))

\* C4: when two rename requests of one job have both ended, the track is the
\* one that running them one after the other, in one of the two orders, gives;
\* and every job in the table has its whole bundle.
C4_Serializable ==
    /\ \A uid \in DOMAIN generated_files : DOMAIN generated_files[uid] = JobKeys
    /\ (thr[1].pc = "done" /\ thr[2].pc = "done" /\ thr[1].uid = thr[2].uid)
           => LET start == IF thr[1].first THEN thr[1].seen ELSE thr[2].seen
                  f1 == thr[1].form
                  f2 == thr[2].form
              IN  generated_files[thr[1].uid]["vtt"]
                      \in {updated_vtt(updated_vtt(start, f1), f2),
                           updated_vtt(updated_vtt(start, f2), f1)}

\* C5: a download of an unknown job, or of a kind other than vtt and
\* transcript, is answered 404 and leaves the job table alone; only vtt and
\* transcript of a known job return content.
C5_NotFoundUnlessTrackOrTranscript ==
    last.op = "download" =>
        LET known == last.req.uid \in DOMAIN last.gf0
            served == last.req.file_type \in {"vtt", "transcript"}
        IN  /\ generated_files = last.gf0
            /\ ~(known /\ served) => last.status = 404
            /\ last.status = 200 => known /\ served

\* C6: an upload that fails issues no job id, leaves the job table as it was
\* and leaves none of its temporary files; an upload in which only the
\* diarization fails creates its job.
C6_FailedUploadLeavesNothing ==
    (last.op = "index" /\ last.req.method = "POST") =>
        /\ last.body.page # "edit.html"
               => generated_files = last.gf0 /\ files = last.files0
        /\ (last.req.ffmpeg = "ok" /\ last.req.token /\ last.req.result.ok)
               => /\ last.body.page = "edit.html"
                  /\ last.body.uid \in DOMAIN generated_files \ DOMAIN last.gf0

\* C7: every job of the table stays in it with the transcript, the mapping and
\* the media reference it had, and its track changes only in a rename request
\* that names it.
C7_OnlyTheAddressedTrackChanges ==
    \A uid \in DOMAIN last.gf0 :
        /\ uid \in DOMAIN generated_files
        /\ generated_files[uid]["transcript"] = last.gf0[uid]["transcript"]
        /\ generated_files[uid]["placeholder_map"] = last.gf0[uid]["placeholder_map"]
        /\ generated_files[uid]["video_path"] = last.gf0[uid]["video_path"]
        /\ generated_files[uid]["vtt"] # last.gf0[uid]["vtt"]
               => Renamed /\ last.req.uid = uid

\* C7 happens: a rename changed the track of one of two jobs
C7_Witness ==
    /\ Renamed
    /\ Cardinality(DOMAIN last.gf0) = 2
    /\ generated_files[last.req.uid]["vtt"] # last.gf0[last.req.uid]["vtt"]

\* C8 (as claimed): the track is WEBVTT, a blank line, and per segment a
\* timestamp line, a tag line and a blank line.
C8_Original ==
    Uploaded =>
        generated_files[last.body.uid]["vtt"]
            = WEBVTT \o <<NL, NL>>
                  \o CuesBeforeBlank(last.req.result.segments, last.loc.tags, 1)

\* C8 (amended): the track is the line WEBVTT and, per segment in input order,
\* a blank line, the timestamp line and the tag line with the trimmed text,
\* each line ended by one newline: nothing follows the last tag line, and the
\* track of (0, 2, "hello") without diarization ends "[SPEAKER_01] hello\n".
C8_TrackLayout ==
    Uploaded =>
        LET segments == last.req.result.segments
            track == generated_files[last.body.uid]["vtt"]
        IN  /\ Len(last.loc.tags) = Len(segments)
            /\ track = WEBVTT \o <<NL>> \o CuesAfterBlank(segments, last.loc.tags, 1)
            /\ (segments = <<SegHello>> /\ ~last.req.diarization.avail)
                   => track = ScenarioA

\* C8 happens: a job of two segments, one of them without text
C8_Witness ==
    /\ Uploaded
    /\ Len(last.req.result.segments) = 2
    /\ last.req.result.segments[2].text = <<>>
    /\ last.req.result.segments[1] = SegHello

\* C9 (as claimed): a rename turns every token of a placeholder given a
\* non-blank name into the trimmed name in brackets and leaves every other
\* token as it was.
C9_Original ==
    Renamed =>
        generated_files[last.req.uid]["vtt"]
            = RenameTokens(last.gf0[last.req.uid]["vtt"], 1, last.req.form)

\* C9 (amended): the same, for the requests in which no new name is a
\* placeholder that a later pair of the request renames.
C9_RenameTokensWithoutChain ==
    Renamed /\ NoNameIsLaterRenamedKey(last.req.form) =>
        generated_files[last.req.uid]["vtt"]
            = RenameTokens(last.gf0[last.req.uid]["vtt"], 1, last.req.form)

\* C9 happens: SPEAKER_01 renamed, SPEAKER_02 left blank, both in the track
C9_Witness ==
    /\ Renamed
    /\ last.req.form = <<[key |-> Speaker01, value |-> Al],
                         [key |-> Speaker02, value |-> <<SP>>]>>
    /\ Contains(last.gf0[last.req.uid]["vtt"], Bracket(Speaker01))
    /\ Contains(generated_files[last.req.uid]["vtt"], Bracket(Strip(Al)))
    /\ Contains(generated_files[last.req.uid]["vtt"], Bracket(Speaker02))

\* C10: a segment's speaker is the key of the first turn, in the order of the
\* diarization, whose closed interval contains the segment's midpoint, and
\* Unknown without diarization, without turns or without such a turn; without
\* diarization every cue is tagged SPEAKER_01.
C10_FirstTurnAroundMidpoint ==
    Uploaded =>
        LET segments == last.req.result.segments
            diarization == last.req.diarization
        IN  /\ Len(last.loc.speakers) = Len(segments)
            /\ \A k \in 1..Len(segments) :
                   LET around == TurnsAround(diarization.turns, segments[k].start,
                                             segments[k].end)
                   IN  last.loc.speakers[k] =
                           IF ~diarization.avail \/ around = {} THEN Unknown
                           ELSE diarization.turns[
                                    CHOOSE i \in around : \A h \in around : i <= h
                                ].speaker
            /\ ~diarization.avail =>
                   \A k \in 1..Len(segments) : last.loc.tags[k] = Speaker01

\* C10 happens: a midpoint on the end of the first turn and on the start of
\* the second, and a segment that no turn contains
C10_Witness ==
    /\ Uploaded
    /\ last.req.diarization = Diarization(<<TurnA, TurnB>>)
    /\ last.req.result.segments = <<SegHello, SegSilent>>
    /\ last.loc.speakers = <<"A", Unknown>>

====
